---------------------------- MODULE Spec2Model ----------------------------
(***************************************************************************)
(* A model of src/app.py: the Camelot key table, the Camelot sort, the     *)
(* lyric tokenizer, the lyric-similarity ranking and the /sort handler.    *)
(*                                                                         *)
(* Python strings are TLA+ strings (TLC evaluates Len, \o, SubSeq, Head    *)
(* and Tail on them); Python's None is the value None; a Python list is a  *)
(* sequence; a dict is a record whose fields are the keys it has; a value   *)
(* that is a list or None is [words |-> list] or NoneValue; a call that     *)
(* raises yields [kind |-> "raised", exc |-> <exception name>].             *)
(***************************************************************************)
EXTENDS Integers, Sequences, FiniteSets, TLC

VARIABLES
    service,     \* what the streaming and lyrics services deliver: the playlists
    method,      \* the request's "method" argument (NoArg when it carries none)
    response,    \* what the /sort handler returned or raised
    vectorizer,  \* the module-level TfidfVectorizer's fitted state
    threads,     \* the concurrent sort_songs_by_similarity invocations
    args,        \* arguments of a helper function called on its own
    ret,         \* what that helper returned
    pc           \* "idle" before the call or request, "done" after it

vars == <<service, method, response, vectorizer, threads, args, ret, pc>>

\* ------------------------------------------------------------------ bounds

\* How far beyond the table's domain (0..11, 0..1) the key and mode arguments range.
Slack == 2

\* Most tracks the service delivers in all, and most playlists it spreads them over.
MaxTracks == 3

MaxPlaylists == 2

\* Concurrent invocations of the ranking, and most documents in the corpus of one.
Invocations == 2

MaxDocs == 2

\* ----------------------------------------------------------- Python values

None == "None"

Unset == "Unset"

Raised(exc) == [kind |-> "raised", exc |-> exc]

\* None where the other values are lists.
NoneValue == [none |-> TRUE]

IsNone(v) == "none" \in DOMAIN v

\* TfidfVectorizer(stop_words='english') before any fit.
Unfitted == [fitted_by |-> 0, vocabulary_ |-> <<>>, idf_ |-> <<>>]

\* s[:-1] and s[-1] of a non-empty string.
AllButLast(s) == SubSeq(s, 1, Len(s) - 1)

Last(s) == SubSeq(s, Len(s), Len(s))

CharAt(s, i) == SubSeq(s, i, i)

\* --------------------------------------------------------- spotify_to_camelot

camelot_notation ==
    (<<0, 1>> :> "8B") @@ (<<1, 1>> :> "3B") @@ (<<2, 1>> :> "10B") @@ (<<3, 1>> :> "5B") @@
    (<<4, 1>> :> "12B") @@ (<<5, 1>> :> "7B") @@ (<<6, 1>> :> "2B") @@ (<<7, 1>> :> "9B") @@
    (<<8, 1>> :> "4B") @@ (<<9, 1>> :> "11B") @@ (<<10, 1>> :> "6B") @@ (<<11, 1>> :> "1B") @@
    (<<0, 0>> :> "5A") @@ (<<1, 0>> :> "12A") @@ (<<2, 0>> :> "7A") @@ (<<3, 0>> :> "2A") @@
    (<<4, 0>> :> "9A") @@ (<<5, 0>> :> "4A") @@ (<<6, 0>> :> "11A") @@ (<<7, 0>> :> "6A") @@
    (<<8, 0>> :> "1A") @@ (<<9, 0>> :> "8A") @@ (<<10, 0>> :> "3A") @@ (<<11, 0>> :> "10A")

\* The earlier version of the function (kept commented out in the source): only
\* key = -1 is guarded, any other pair missing from the table is a KeyError.
spotify_to_camelot_subscript(key, mode) ==
    IF key = -1 THEN None
    ELSE IF <<key, mode>> \in DOMAIN camelot_notation
         THEN camelot_notation[<<key, mode>>]
         ELSE "KeyError"

\* camelot_notation.get((key, mode), None)
spotify_to_camelot(key, mode) ==
    IF <<key, mode>> \in DOMAIN camelot_notation
    THEN camelot_notation[<<key, mode>>]
    ELSE None

KeyArgs == (0 - Slack)..(11 + Slack)

ModeArgs == (0 - Slack)..(1 + Slack)

InitCamelot ==
    /\ args \in [key : KeyArgs, mode : ModeArgs]
    /\ ret = Unset
    /\ pc = "idle"
    /\ service = <<>>
    /\ method = None
    /\ response = Unset
    /\ vectorizer = Unfitted
    /\ threads = <<>>

CallSpotifyToCamelot ==
    /\ pc = "idle"
    /\ ret' = spotify_to_camelot(args.key, args.mode)
    /\ pc' = "done"
    /\ UNCHANGED <<service, method, response, vectorizer, threads, args>>

NextCamelot == CallSpotifyToCamelot

SpecCamelot == InitCamelot /\ [][NextCamelot]_vars

\* ------------------------------------------------------------------ C1

\* The Camelot wheel as the claim lists it: the number of pitch class k is the
\* (k+1)-th entry, on ring B for mode 1 and on ring A for mode 0.
WheelMajor == <<8, 3, 10, 5, 12, 7, 2, 9, 4, 11, 6, 1>>

WheelMinor == <<5, 12, 7, 2, 9, 4, 11, 6, 1, 8, 3, 10>>

Digit(d) == SubSeq("0123456789", d + 1, d + 1)

Decimal(n) == IF n < 10 THEN Digit(n) ELSE Digit(n \div 10) \o Digit(n % 10)

WheelValue(k, m) ==
    IF m = 1 THEN Decimal(WheelMajor[k + 1]) \o "B" ELSE Decimal(WheelMinor[k + 1]) \o "A"

\* C1: for every pitch class in 0..11 and mode in {0,1} spotify_to_camelot returns
\* the standard Camelot wheel value, and for every other (key, mode) pair it
\* returns None without raising.
C1_CamelotTable ==
    pc = "done" =>
        IF args.key \in 0..11 /\ args.mode \in {0, 1}
        THEN ret = WheelValue(args.key, args.mode)
        ELSE ret = None

\* A call outside the table's domain (key 0, mode 2) has returned None.
C1_Witness ==
    /\ pc = "done"
    /\ args.key = 0
    /\ args.mode = 2
    /\ ret = None

\* ------------------------------------------------------------ process_lyrics

LowerLetters == "abcdefghijklmnopqrstuvwxyz"

UpperLetters == "ABCDEFGHIJKLMNOPQRSTUVWXYZ"

Digits == "0123456789"

Chars(s) == {CharAt(s, i) : i \in 1..Len(s)}

IndexOf(c, s) == CHOOSE i \in 1..Len(s) : CharAt(s, i) = c

\* str.lower() of one character.
LowerChar(c) ==
    IF c \in Chars(UpperLetters) THEN CharAt(LowerLetters, IndexOf(c, UpperLetters)) ELSE c

RECURSIVE Lower(_)
\* str.lower()
Lower(s) == IF s = "" THEN "" ELSE LowerChar(CharAt(s, 1)) \o Lower(Tail(s))

\* str.isalnum(): non-empty and every character a letter or a digit.
isalnum(w) ==
    /\ w # ""
    /\ Chars(w) \subseteq Chars(LowerLetters) \cup Chars(UpperLetters) \cup Chars(Digits)

Whitespace == {" "}

\* Punctuation that the tokenizer always splits off as a token of its own.
SplitPunctuation == {"!", "?"}

RECURSIVE Tok(_, _, _)
Tok(s, cur, out) ==
    LET flushed == IF cur = "" THEN out ELSE Append(out, cur)
    IN  IF s = "" THEN flushed
        ELSE LET c == CharAt(s, 1)
             IN  IF c \in Whitespace THEN Tok(Tail(s), "", flushed)
                 ELSE IF c \in SplitPunctuation THEN Tok(Tail(s), "", Append(flushed, c))
                 ELSE Tok(Tail(s), cur \o c, out)

\* nltk's word_tokenize on text made of letters, digits, blanks, "!" and "?":
\* blanks separate tokens and each "!" or "?" is a token of its own.
word_tokenize(s) == Tok(s, "", <<>>)

\* set(stopwords.words('english'))
stop_words ==
    {"i", "me", "my", "myself", "we", "our", "ours", "ourselves", "you", "you're",
     "you've", "you'll", "you'd", "your", "yours", "yourself", "yourselves", "he",
     "him", "his", "himself", "she", "she's", "her", "hers", "herself", "it", "it's",
     "its", "itself", "they", "them", "their", "theirs", "themselves", "what", "which",
     "who", "whom", "this", "that", "that'll", "these", "those", "am", "is", "are",
     "was", "were", "be", "been", "being", "have", "has", "had", "having", "do", "does",
     "did", "doing", "a", "an", "the", "and", "but", "if", "or", "because", "as",
     "until", "while", "of", "at", "by", "for", "with", "about", "against", "between",
     "into", "through", "during", "before", "after", "above", "below", "to", "from",
     "up", "down", "in", "out", "on", "off", "over", "under", "again", "further",
     "then", "once", "here", "there", "when", "where", "why", "how", "all", "any",
     "both", "each", "few", "more", "most", "other", "some", "such", "no", "nor",
     "not", "only", "own", "same", "so", "than", "too", "very", "s", "t", "can",
     "will", "just", "don", "don't", "should", "should've", "now", "d", "ll", "m", "o",
     "re", "ve", "y", "ain", "aren", "aren't", "couldn", "couldn't", "didn", "didn't",
     "doesn", "doesn't", "hadn", "hadn't", "hasn", "hasn't", "haven", "haven't", "isn",
     "isn't", "ma", "mightn", "mightn't", "mustn", "mustn't", "needn", "needn't",
     "shan", "shan't", "shouldn", "shouldn't", "wasn", "wasn't", "weren", "weren't",
     "won", "won't", "wouldn", "wouldn't"}

\* The function without its lyrics.lower(): tokens keep their case.
process_lyrics_no_lower(lyrics) ==
    SelectSeq(word_tokenize(lyrics), LAMBDA word : isalnum(word) /\ word \notin stop_words)

process_lyrics(lyrics) ==
    LET words == word_tokenize(Lower(lyrics))
    IN  SelectSeq(words, LAMBDA word : isalnum(word) /\ word \notin stop_words)

\* Longest enumerated lyrics text, in characters.
MaxLen == 4

TextAlphabet == {"a", "t", "A", "T", "1", "!", " "}

RECURSIVE StringsOfLen(_)
StringsOfLen(n) ==
    IF n = 0 THEN {""} ELSE {s \o c : s \in StringsOfLen(n - 1), c \in TextAlphabet}

ExampleLyrics == "The Cat sat on the MAT!!"

Texts == UNION {StringsOfLen(n) : n \in 0..MaxLen} \cup {ExampleLyrics}

InitLyrics ==
    /\ args \in [lyrics : Texts]
    /\ ret = Unset
    /\ pc = "idle"
    /\ service = <<>>
    /\ method = None
    /\ response = Unset
    /\ vectorizer = Unfitted
    /\ threads = <<>>

CallProcessLyrics ==
    /\ pc = "idle"
    /\ ret' = process_lyrics(args.lyrics)
    /\ pc' = "done"
    /\ UNCHANGED <<service, method, response, vectorizer, threads, args>>

NextLyrics == CallProcessLyrics

SpecLyrics == InitLyrics /\ [][NextLyrics]_vars

\* ------------------------------------------------------------------ C10

Occurrences(w, seq) == Cardinality({i \in 1..Len(seq) : seq[i] = w})

RECURSIVE IsSubsequence(_, _)
\* sub is seq with some elements left out, the rest in their order.
IsSubsequence(sub, seq) ==
    IF sub = <<>> THEN TRUE
    ELSE IF seq = <<>> THEN FALSE
    ELSE IF Head(sub) = Head(seq) THEN IsSubsequence(Tail(sub), Tail(seq))
    ELSE IsSubsequence(sub, Tail(seq))

Range(seq) == {seq[i] : i \in 1..Len(seq)}

\* C10: process_lyrics returns, in their original order, exactly the word tokens
\* of the lower-cased input that are purely alphanumeric and not stop-words: no
\* returned token is a stop-word, has an upper-case letter or punctuation, no
\* qualifying token is omitted, and "The Cat sat on the MAT!!" gives
\* ["cat", "sat", "mat"].
C10_ProcessLyrics ==
    pc = "done" =>
        LET tokens == word_tokenize(Lower(args.lyrics))
        IN  /\ \A w \in Range(ret) :
                /\ w \notin stop_words
                /\ Chars(w) \subseteq Chars(LowerLetters) \cup Chars(Digits)
            /\ IsSubsequence(ret, tokens)
            /\ \A w \in Range(tokens) :
                (isalnum(w) /\ w \notin stop_words) => Occurrences(w, ret) = Occurrences(w, tokens)
            /\ (args.lyrics = ExampleLyrics => ret = <<"cat", "sat", "mat">>)

\* The example has been tokenized: stop-words, upper case and "!" are all present
\* in the input and a token is returned.
C10_Witness ==
    /\ pc = "done"
    /\ args.lyrics = ExampleLyrics
    /\ Len(ret) = 3

\* ------------------------------------------------------- fetching, enriching

\* The lyrics threshold of fetch_and_process_lyrics, in characters.
MinLyricsLen == 50

\* genius.search_song found nothing.
NoSong == None

\* song is what genius.search_song returned: NoSong or the song's lyrics.
fetch_and_process_lyrics(song) ==
    IF song = NoSong \/ song = "" \/ Len(song) < MinLyricsLen
    THEN NoneValue
    ELSE [words |-> process_lyrics(song)]

\* item['track'].update({...}); danceability and energy are copied and never read.
enrich_track_with_audio_features(item) ==
    [id |-> item.id,
     bpm |-> item.features.tempo,
     key |-> item.features.key,
     major_minor |-> IF item.features.mode = 1 THEN "major" ELSE "minor",
     camelot |-> spotify_to_camelot(item.features.key, item.features.mode),
     lyrics |-> fetch_and_process_lyrics(item.song)]

\* A track whose audio-features request did not answer 200 keeps only what the
\* playlist service gave it.
enrich_track_details(item) ==
    IF item.status = 200 THEN enrich_track_with_audio_features(item) ELSE [id |-> item.id]

enrich_playlists_with_track_details(items) ==
    [p \in 1..Len(items) |-> [t \in 1..Len(items[p]) |-> enrich_track_details(items[p][t])]]

ErrorBody(msg) == [kind |-> "error", error |-> msg, code |-> 400]

\* The /playlists route: the playlists, every track enriched, in the order the
\* service delivered them.
playlists(svc) ==
    IF svc.status # 200 THEN ErrorBody("Failed to fetch playlists")
    ELSE [kind |-> "playlists", items |-> enrich_playlists_with_track_details(svc.items)]

\* ------------------------------------------------------- sort_tracks_camelot

\* Characters in code-point order.
CodePoints == " !0123456789?ABCDEFGHIJKLMNOPQRSTUVWXYZabcdefghijklmnopqrstuvwxyz"

Ord(c) == IndexOf(c, CodePoints)

RECURSIVE StrLess(_, _)
\* a < b on Python strings: lexicographic by code point.
StrLess(a, b) ==
    IF b = "" THEN FALSE
    ELSE IF a = "" THEN TRUE
    ELSE IF CharAt(a, 1) = CharAt(b, 1) THEN StrLess(Tail(a), Tail(b))
    ELSE Ord(CharAt(a, 1)) < Ord(CharAt(b, 1))

\* The sort key of the lambda: (camelot[:-1], camelot[-1]).
CamelotKey(track) == <<AllButLast(track.camelot), Last(track.camelot)>>

\* k1 < k2 on the key tuples.
KeyLess(k1, k2) ==
    \/ StrLess(k1[1], k2[1])
    \/ k1[1] = k2[1] /\ StrLess(k1[2], k2[2])

\* What evaluating the lambda on the track raises, or None.
KeyFailure(track) ==
    IF "camelot" \notin DOMAIN track THEN "KeyError"
    ELSE IF track.camelot = None THEN "TypeError"
    ELSE None

\* An insertion that puts the track before the tracks of equal key.
InsertByKeyBeforeEqual(track, sorted) ==
    LET k == CamelotKey(track)
        later == {i \in 1..Len(sorted) : ~KeyLess(CamelotKey(sorted[i]), k)}
        at == IF later = {} THEN Len(sorted) + 1 ELSE CHOOSE i \in later : \A j \in later : i <= j
    IN  SubSeq(sorted, 1, at - 1) \o <<track>> \o SubSeq(sorted, at, Len(sorted))

\* The track goes before the first track of greater key: after those of equal key.
InsertByKey(track, sorted) ==
    LET k == CamelotKey(track)
        later == {i \in 1..Len(sorted) : KeyLess(k, CamelotKey(sorted[i]))}
        at == IF later = {} THEN Len(sorted) + 1 ELSE CHOOSE i \in later : \A j \in later : i <= j
    IN  SubSeq(sorted, 1, at - 1) \o <<track>> \o SubSeq(sorted, at, Len(sorted))

RECURSIVE ListSort(_, _)
\* list.sort(key=...) of tracks whose keys all evaluate: a stable sort.
ListSort(tracks, sorted) ==
    IF tracks = <<>> THEN sorted ELSE ListSort(Tail(tracks), InsertByKey(Head(tracks), sorted))

RECURSIVE SortPlaylists(_, _)
\* The loop over playlists['items']: the first track whose key raises ends it.
SortPlaylists(todo, done) ==
    IF todo = <<>> THEN [kind |-> "playlists", items |-> done]
    ELSE LET tracks == Head(todo)
             failing == {i \in 1..Len(tracks) : KeyFailure(tracks[i]) # None}
         IN  IF failing # {}
             THEN Raised(KeyFailure(tracks[CHOOSE i \in failing : \A j \in failing : i <= j]))
             ELSE SortPlaylists(Tail(todo), Append(done, ListSort(tracks, <<>>)))

\* data is what playlists() returned; the error tuple has no 'items'.
sort_tracks_camelot(data) ==
    IF data.kind # "playlists" THEN Raised("TypeError") ELSE SortPlaylists(data.items, <<>>)

\* -------------------------------------------------- sort_songs_by_similarity

\* Floats are fixed-point numbers: Scale stands for 1.0.
Scale == 1000

\* The natural logarithm of 1..8 in units of 1/Scale.
LnScaled == <<0, 693, 1099, 1386, 1609, 1792, 1946, 2079>>

RECURSIVE SqrtBetween(_, _, _)
SqrtBetween(x, lo, hi) ==
    IF lo >= hi THEN lo
    ELSE LET mid == (lo + hi + 1) \div 2
         IN  IF mid * mid <= x THEN SqrtBetween(x, mid, hi) ELSE SqrtBetween(x, lo, mid - 1)

\* The integer square root.
Sqrt(x) == SqrtBetween(x, 0, 46340)

RECURSIVE Sum(_)
Sum(seq) == IF seq = <<>> THEN 0 ELSE Head(seq) + Sum(Tail(seq))

\* Words of scikit-learn's English stop-word list that nltk's list lacks (a part).
sklearn_stop_words ==
    {"cry", "fire", "fill", "find", "found", "full", "give", "go", "keep", "made",
     "move", "never", "always", "back", "call", "eight", "five", "four", "nine", "one",
     "two", "three", "ten", "six", "first", "last", "many", "much", "mine", "name",
     "part", "put", "see", "seem", "show", "side", "take", "top", "well", "yet", "us",
     "also", "else", "even", "ever", "every", "get", "may", "might", "must", "next",
     "often", "per", "please", "rather", "since", "still", "thus", "together", "upon",
     "via", "whether", "within", "without", "would", "could", "cannot", "bill",
     "bottom", "con", "de", "describe", "detail", "done", "due", "eg", "etc", "front",
     "ie", "inc", "interest", "ltd", "mill", "sincere", "system", "thick", "thin",
     "un", "co", "amount", "empty"}

\* The vectorizer's analyzer on " ".join(words): tokens of two or more word
\* characters that are no stop-word.
Analyze(words) ==
    SelectSeq(words, LAMBDA w : Len(w) >= 2 /\ w \notin sklearn_stop_words \cup stop_words)

RECURSIVE SortedTerms(_)
\* The terms in ascending order: the columns of the matrix.
SortedTerms(terms) ==
    IF terms = {} THEN <<>>
    ELSE LET least == CHOOSE t \in terms : \A u \in terms \ {t} : StrLess(t, u)
         IN  <<least>> \o SortedTerms(terms \ {least})

\* CountVectorizer._count_vocab: the vocabulary of the documents.
Vocabulary(docs) == SortedTerms(UNION {Range(Analyze(docs[d])) : d \in 1..Len(docs)})

\* The term-count matrix of the documents over the vocabulary.
CountMatrix(docs, vocabulary) ==
    [d \in 1..Len(docs) |->
        [t \in 1..Len(vocabulary) |-> Occurrences(vocabulary[t], Analyze(docs[d]))]]

\* TfidfTransformer.fit: idf(t) = ln((1 + n) / (1 + df(t))) + 1.
FitIdf(X) ==
    IF X = <<>> THEN <<>>
    ELSE [t \in 1..Len(X[1]) |->
            LET df == Cardinality({d \in 1..Len(X) : X[d][t] > 0})
            IN  LnScaled[1 + Len(X)] - LnScaled[1 + df] + Scale]

\* A row divided by its Euclidean norm; a zero row stays zero.
Normalize(row) ==
    LET norm == Sqrt(Sum([t \in 1..Len(row) |-> row[t] * row[t]]))
    IN  [t \in 1..Len(row) |-> IF norm = 0 THEN 0 ELSE (row[t] * Scale) \div norm]

\* TfidfTransformer.transform with the fitted idf: tf * idf, rows l2-normalised.
Transform(X, idf) ==
    [d \in 1..Len(X) |-> Normalize([t \in 1..Len(X[d]) |-> X[d][t] * idf[t]])]

\* cosine_similarity(tfidf_matrix): the dot products of the normalised rows.
cosine_similarity(M) ==
    LET N == [d \in 1..Len(M) |-> Normalize(M[d])]
    IN  [i \in 1..Len(M) |->
            [j \in 1..Len(M) |-> Sum([t \in 1..Len(N[i]) |-> N[i][t] * N[j][t]]) \div Scale]]

\* a < b on two numpy rows: the row of the elementwise comparisons.
ArrayLess(a, b) == [t \in 1..Len(a) |-> a[t] < b[t]]

Negated(row) == [t \in 1..Len(row) |-> 0 - row[t]]

\* sorted(range(n), key=lambda x: -similarity_matrix[x]). With one index nothing
\* is compared. With more the first comparison is of two rows of n entries, and
\* the truth value of an array of more than one element is a ValueError.
SortedByRow(similarity_matrix) ==
    LET n == Len(similarity_matrix)
        order == [i \in 1..n |-> i - 1]
    IN  IF n < 2 THEN [kind |-> "indices", order |-> order]
        ELSE IF Len(ArrayLess(Negated(similarity_matrix[2]), Negated(similarity_matrix[1]))) # 1
             THEN Raised("ValueError")
             ELSE [kind |-> "indices", order |-> order]

RECURSIVE Flatten(_)
Flatten(seqs) == IF seqs = <<>> THEN <<>> ELSE Head(seqs) \o Flatten(Tail(seqs))

\* What " ".join(song['track']['lyrics']) raises on the track, or None.
JoinFailure(track) ==
    IF "lyrics" \notin DOMAIN track THEN "KeyError"
    ELSE IF IsNone(track.lyrics) THEN "TypeError"
    ELSE None

\* The list comprehension of line 77 over what playlists() returned: the
\* documents (each the word list that is joined), or the first failure.
LyricsList(data) ==
    IF data.kind # "playlists" THEN Raised("TypeError")
    ELSE LET tracks == Flatten(data.items)
             failing == {i \in 1..Len(tracks) : JoinFailure(tracks[i]) # None}
         IN  IF failing # {}
             THEN Raised(JoinFailure(tracks[CHOOSE i \in failing : \A j \in failing : i <= j]))
             ELSE [kind |-> "documents", docs |-> [i \in 1..Len(tracks) |-> tracks[i].lyrics.words]]

\* vectorizer.fit_transform, cosine_similarity and sorted on the documents, run
\* without interruption: the result and the state the vectorizer is left in.
RankDocuments(docs, vec, by) ==
    LET vocabulary == Vocabulary(docs)
        X == CountMatrix(docs, vocabulary)
        idf == FitIdf(X)
    IN  IF vocabulary = <<>>
        THEN [result |-> Raised("ValueError"), vectorizer |-> vec]
        ELSE [result |-> SortedByRow(cosine_similarity(Transform(X, idf))),
              vectorizer |-> [fitted_by |-> by, vocabulary_ |-> vocabulary, idf_ |-> idf]]

\* sort_songs_by_similarity(): svc is what its own call of playlists() fetches.
sort_songs_by_similarity(svc, vec) ==
    LET lyrics_list == LyricsList(playlists(svc))
    IN  IF lyrics_list.kind = "raised"
        THEN [result |-> lyrics_list, vectorizer |-> vec]
        ELSE RankDocuments(lyrics_list.docs, vec, 1)

\* ------------------------------------------------------------ the /sort route

\* The request carries no "method" argument.
NoArg == None

\* The route: request.args.get('method', default='bpm'), playlists(), the branch.
sort(m, svc, vec) ==
    LET chosen == IF m = NoArg THEN "bpm" ELSE m
        playlist_data == playlists(svc)
    IN  IF chosen = "bpm" THEN [result |-> playlist_data, vectorizer |-> vec]
        ELSE IF chosen = "camelot"
        THEN [result |-> sort_tracks_camelot(playlist_data), vectorizer |-> vec]
        ELSE IF chosen = "wordplay" THEN sort_songs_by_similarity(svc, vec)
        ELSE [result |-> ErrorBody("Unknown sorting method"), vectorizer |-> vec]

RECURSIVE Repeat(_, _)
Repeat(str, n) == IF n = 0 THEN "" ELSE str \o Repeat(str, n - 1)

\* Lyrics the lyrics service may hold: 50 characters, 55 with capitals and "!",
\* 52 of stop-words only, 52 of a word only scikit-learn stops, and 9.
Songs ==
    {Repeat("love ", 10), Repeat("Rain love! ", 5), Repeat("the ", 13), Repeat("cry ", 13),
     "love rain"}

\* (key, mode) of the audio features: no key detected, then 9B, 10B, 10A, 11B.
KeyModes == {<<-1, 0>>, <<7, 1>>, <<2, 1>>, <<11, 0>>, <<9, 1>>}

Tempos == {90, 120}

Features(key, mode, tempo) == [key |-> key, mode |-> mode, tempo |-> tempo]

Fetched(features, song) == [status |-> 200, features |-> features, song |-> song]

\* A track whose audio-features request failed: nothing of the answer is read.
Unfetched == [status |-> 404, features |-> Features(0, 0, 0), song |-> NoSong]

\* The tracks of a delivery vary in key and mode, or in tempo.
AudioFamilies ==
    {{Fetched(Features(km[1], km[2], 120), NoSong) : km \in KeyModes} \cup {Unfetched},
     {Fetched(Features(7, 1, t), NoSong) : t \in Tempos}}

\* The tracks of a delivery vary in their lyrics.
LyricFamilies ==
    {{Fetched(Features(7, 1, 120), song) : song \in Songs \cup {NoSong}} \cup {Unfetched}}

RECURSIVE Splits(_, _)
\* The ways to give n tracks to p playlists, as the playlists' lengths.
Splits(n, p) ==
    IF p = 0 THEN (IF n = 0 THEN {<<>>} ELSE {})
    ELSE UNION {{<<first>> \o rest : rest \in Splits(n - first, p - 1)} : first \in 0..n}

RECURSIVE Deal(_, _, _)
\* The tracks dealt to playlists of the given lengths; a track's id is its place.
Deal(tracks, lens, from) ==
    IF lens = <<>> THEN <<>>
    ELSE <<[t \in 1..Head(lens) |-> [id |-> from + t] @@ tracks[from + t]]>>
         \o Deal(tracks, Tail(lens), from + Head(lens))

Deliveries(families) ==
    UNION {UNION {UNION {{Deal(tracks, lens, 0) : tracks \in [1..n -> family], lens \in Splits(n, p)}
                         : p \in 0..MaxPlaylists} : n \in 0..MaxTracks} : family \in families}

\* What the playlist request answers: the playlists, or a failure.
Services(families) ==
    {[status |-> 200, items |-> items] : items \in Deliveries(families)}
        \cup {[status |-> 401, items |-> <<>>]}

Methods == {NoArg, "bpm", "camelot", "wordplay", "tempo"}

InitRequest(families) ==
    /\ service \in Services(families)
    /\ method \in Methods
    /\ response = Unset
    /\ vectorizer = Unfitted
    /\ threads = <<>>
    /\ args = Unset
    /\ ret = Unset
    /\ pc = "idle"

\* One request to /sort.
SortRequest ==
    /\ pc = "idle"
    /\ LET out == sort(method, service, vectorizer)
       IN  /\ response' = out.result
           /\ vectorizer' = out.vectorizer
    /\ pc' = "done"
    /\ UNCHANGED <<service, method, threads, args, ret>>

Next == SortRequest

\* Deliveries that vary in the audio features.
Init == InitRequest(AudioFamilies)

Spec == Init /\ [][Next]_vars

\* Deliveries that vary in the lyrics.
InitWordplay == InitRequest(LyricFamilies)

SpecWordplay == InitWordplay /\ [][Next]_vars

\* --------------------------------------------------------- C2, C3, C8, C9

\* The request was for the Camelot sort and the playlists were delivered.
CamelotDone == pc = "done" /\ method = "camelot" /\ service.status = 200

\* The playlists as sort_tracks_camelot received them.
Received == playlists(service).items

Notated(track) == "camelot" \in DOMAIN track /\ track.camelot # None

RECURSIVE ParseInt(_)
\* The number a string of digits writes.
ParseInt(str) ==
    IF str = "" THEN 0 ELSE 10 * ParseInt(AllButLast(str)) + (IndexOf(Last(str), Digits) - 1)

WheelNumber(track) == ParseInt(AllButLast(track.camelot))

WheelLetter(track) == Last(track.camelot)

\* a may stand before b: lower wheel number, or the same number and not B before A.
NumericOrder(a, b) ==
    \/ WheelNumber(a) < WheelNumber(b)
    \/ WheelNumber(a) = WheelNumber(b) /\ ~(WheelLetter(a) = "B" /\ WheelLetter(b) = "A")

\* C2: for every playlist whose tracks all carry a notation, sort_tracks_camelot
\* orders the tracks by wheel number 1..12 ascending, compared as numbers, and
\* then by letter, A before B: 9B comes before 10B, which comes before 11B.
C2_NumericOrder ==
    (CamelotDone /\ \A p \in 1..Len(Received) : \A t \in 1..Len(Received[p]) : Notated(Received[p][t]))
        => /\ response.kind = "playlists"
           /\ \A p \in 1..Len(response.items) :
                \A i, j \in 1..Len(response.items[p]) :
                    i < j => NumericOrder(response.items[p][i], response.items[p][j])

Unnotated(tracks) == {i \in 1..Len(tracks) : ~Notated(tracks[i])}

\* C3: sort_tracks_camelot never raises when a playlist has a track with no
\* notation: the call completes and the tracks without a notation stand at the
\* end of their playlist, in input order.
C3_UnnotatedLast ==
    (CamelotDone /\ \E p \in 1..Len(Received) : Unnotated(Received[p]) # {})
        => /\ response.kind = "playlists"
           /\ \A p \in 1..Len(response.items) :
                LET out == response.items[p]
                IN  \A i, j \in 1..Len(out) :
                        /\ (i \in Unnotated(out) /\ j \notin Unnotated(out)) => j < i
                        /\ (i \in Unnotated(out) /\ j \in Unnotated(out) /\ i < j)
                                => out[i].id < out[j].id

\* Where the track of this id stands in the playlist.
PlaceOf(id, tracks) == CHOOSE i \in 1..Len(tracks) : tracks[i].id = id

\* C8: sort_tracks_camelot is stable: each playlist of the output is a
\* permutation of its input with every track (so its notation) unchanged, and two
\* tracks of identical notation keep their relative input order.
C8_StablePermutation ==
    (CamelotDone /\ response.kind = "playlists")
        => /\ Len(response.items) = Len(Received)
           /\ \A p \in 1..Len(Received) :
                LET in == Received[p]
                    out == response.items[p]
                IN  /\ Len(out) = Len(in)
                    /\ \A i \in 1..Len(in) : \E j \in 1..Len(out) : out[j] = in[i]
                    /\ \A i, j \in 1..Len(out) :
                        (i < j /\ out[i].camelot = out[j].camelot)
                            => PlaceOf(out[i].id, in) < PlaceOf(out[j].id, in)

\* A sorted playlist of three tracks, two of them of identical notation, that the
\* sort has reordered.
C8_Witness ==
    /\ CamelotDone
    /\ response.kind = "playlists"
    /\ \E p \in 1..Len(Received) :
        /\ Len(Received[p]) = 3
        /\ response.items[p] # Received[p]
        /\ \E i, j \in 1..3 : i < j /\ Received[p][i].camelot = Received[p][j].camelot

Monotone(tracks) ==
    \/ \A i \in 1..(Len(tracks) - 1) : tracks[i].bpm <= tracks[i + 1].bpm
    \/ \A i \in 1..(Len(tracks) - 1) : tracks[i].bpm >= tracks[i + 1].bpm

\* C9: with method 'bpm', also the default, the tracks of each returned playlist
\* are ordered by tempo whatever order the service delivered them in: the bpm
\* values of adjacent tracks are in monotone order.
C9_BpmOrdered ==
    (pc = "done" /\ method \in {NoArg, "bpm"} /\ response.kind = "playlists")
        => \A p \in 1..Len(response.items) :
            (\A t \in 1..Len(response.items[p]) : "bpm" \in DOMAIN response.items[p][t])
                => Monotone(response.items[p])

\* ------------------------------------------------------------- C4, C5, C6

\* The request was for the similarity ranking and the playlists were delivered.
WordplayDone == pc = "done" /\ method = "wordplay" /\ service.status = 200

\* The corpus: the tracks of all playlists, as delivered and as enriched.
Delivered == Flatten(service.items)

Corpus == Flatten(Received)

\* The word list a track brings to the ranking; no words when it has no lyrics.
WordsOf(track) ==
    IF "lyrics" \in DOMAIN track /\ ~IsNone(track.lyrics) THEN track.lyrics.words ELSE <<>>

\* The similarity of every track of the corpus to the reference track, the first.
ToReference ==
    LET docs == [i \in 1..Len(Corpus) |-> WordsOf(Corpus[i])]
        X == CountMatrix(docs, Vocabulary(docs))
    IN  cosine_similarity(Transform(X, FitIdf(X)))[1]

\* C4: for a corpus of n >= 2 tracks sort_songs_by_similarity returns a
\* permutation of 0..n-1 in descending similarity to the reference track, the
\* first of the corpus, indices of equal similarity in ascending order. Stated
\* for the corpora in which every track has lyrics and some word is left to count.
C4_RankedPermutation ==
    (/\ WordplayDone
     /\ Len(Corpus) >= 2
     /\ \A i \in 1..Len(Corpus) : JoinFailure(Corpus[i]) = None
     /\ Vocabulary([i \in 1..Len(Corpus) |-> WordsOf(Corpus[i])]) # <<>>)
        => /\ response.kind = "indices"
           /\ Len(response.order) = Len(Corpus)
           /\ Range(response.order) = 0..(Len(Corpus) - 1)
           /\ \A i, j \in 1..Len(Corpus) :
                i < j =>
                    LET a == response.order[i]
                        b == response.order[j]
                    IN  \/ ToReference[a + 1] > ToReference[b + 1]
                        \/ ToReference[a + 1] = ToReference[b + 1] /\ a < b

\* The lyrics service has no lyrics for the track, or fewer than 50 characters.
LacksLyrics(item) == item.status = 200 /\ (item.song = NoSong \/ Len(item.song) < MinLyricsLen)

\* C5: a track whose lyrics are absent or shorter than 50 characters gets an
\* empty token set, and the ranking of a corpus holding such a track completes
\* with no exception and with every track in the result.
C5_EmptyLyricsRanked ==
    (WordplayDone /\ \E i \in 1..Len(Delivered) : LacksLyrics(Delivered[i]))
        => /\ \A i \in 1..Len(Delivered) :
                LacksLyrics(Delivered[i]) => Corpus[i].lyrics = [words |-> <<>>]
           /\ response.kind = "indices"
           /\ Range(response.order) = 0..(Len(Corpus) - 1)

\* C6: on a corpus of 0 or 1 tracks the ranking short-circuits: it returns the
\* empty sequence or [0], whatever the track's tokens, raises nothing and never
\* fits the vectorizer.
C6_DegenerateCorpus ==
    (WordplayDone /\ Len(Corpus) <= 1)
        => /\ response = [kind |-> "indices", order |-> [i \in 1..Len(Corpus) |-> i - 1]]
           /\ vectorizer = Unfitted

\* ------------------------------------------------- concurrent invocations

\* The word lists a track's lyrics may have been processed to.
Documents == {<<>>, <<"love">>, <<"love", "rain">>, <<"rain", "sun", "sun">>}

Corpora == UNION {[1..n -> Documents] : n \in 0..MaxDocs}

\* An invocation that has built its lyrics_list and is about to call fit_transform.
Started(docs) ==
    [pc |-> "count", docs |-> docs, X |-> <<>>, tfidf_matrix |-> <<>>, read_from |-> 0,
     result |-> [kind |-> "pending"]]

InitConcurrent ==
    /\ threads \in [1..Invocations -> {Started(docs) : docs \in Corpora}]
    /\ vectorizer = Unfitted
    /\ service = <<>>
    /\ method = "wordplay"
    /\ response = Unset
    /\ args = Unset
    /\ ret = Unset
    /\ pc = "idle"

Finish(t, result) == [threads EXCEPT ![t].pc = "done", ![t].result = result]

\* CountVectorizer.fit_transform: count the terms, keep the vocabulary on the
\* shared vectorizer; an empty vocabulary is a ValueError.
StepCount(t) ==
    /\ threads[t].pc = "count"
    /\ LET vocabulary == Vocabulary(threads[t].docs)
       IN  IF vocabulary = <<>>
           THEN /\ threads' = Finish(t, Raised("ValueError"))
                /\ UNCHANGED vectorizer
           ELSE /\ threads' = [threads EXCEPT ![t].pc = "fit",
                                              ![t].X = CountMatrix(threads[t].docs, vocabulary)]
                /\ vectorizer' = [vectorizer EXCEPT !.vocabulary_ = vocabulary]
    /\ UNCHANGED <<service, method, response, args, ret, pc>>

\* TfidfTransformer.fit: keep the idf weights on the shared vectorizer.
StepFit(t) ==
    /\ threads[t].pc = "fit"
    /\ vectorizer' = [vectorizer EXCEPT !.idf_ = FitIdf(threads[t].X), !.fitted_by = t]
    /\ threads' = [threads EXCEPT ![t].pc = "transform"]
    /\ UNCHANGED <<service, method, response, args, ret, pc>>

\* TfidfTransformer.transform: weigh the counts by the idf the shared vectorizer
\* now holds; a count matrix of another width is a ValueError.
StepTransform(t) ==
    /\ threads[t].pc = "transform"
    /\ IF Len(vectorizer.idf_) # Len(threads[t].X[1])
       THEN threads' = [Finish(t, Raised("ValueError")) EXCEPT ![t].read_from = vectorizer.fitted_by]
       ELSE threads' = [threads EXCEPT ![t].pc = "rank",
                                       ![t].tfidf_matrix = Transform(threads[t].X, vectorizer.idf_),
                                       ![t].read_from = vectorizer.fitted_by]
    /\ UNCHANGED <<vectorizer, service, method, response, args, ret, pc>>

\* cosine_similarity and sorted, on the invocation's own matrix.
StepRank(t) ==
    /\ threads[t].pc = "rank"
    /\ threads' = Finish(t, SortedByRow(cosine_similarity(threads[t].tfidf_matrix)))
    /\ UNCHANGED <<vectorizer, service, method, response, args, ret, pc>>

NextConcurrent ==
    \E t \in 1..Invocations : StepCount(t) \/ StepFit(t) \/ StepTransform(t) \/ StepRank(t)

SpecConcurrent == InitConcurrent /\ [][NextConcurrent]_vars

\* ------------------------------------------------------------------ C7

\* C7: concurrent invocations on independent collections do not interfere: none
\* reads vector-space state another has written, and under every interleaving
\* each returns what it returns when run alone.
C7_NoInterference ==
    \A t \in 1..Invocations :
        threads[t].pc = "done"
            => /\ threads[t].result = RankDocuments(threads[t].docs, Unfitted, t).result
               /\ threads[t].read_from \in {0, t}

=============================================================================
